---- MODULE Spec2Model ----
(***************************************************************************)
(* Model of the AgentExecutive session logic: ExecutionTab (one session    *)
(* per tab), TabManager, ActionPanel, LLMHandler (Decision Provider) and   *)
(* WebPageHandler (Action Executor).                                       *)
(*                                                                         *)
(* Tkinter runs every handler on the single UI thread, so a handler runs   *)
(* to completion before the next event is dispatched.  The variable ui     *)
(* holds the position of the UI thread: "idle" (main loop waiting for an   *)
(* event) or inside a handler with a collaborator call in flight           *)
(* ("snapshot", "decide", "perform"), about to show the action             *)
(* ("set_action"), waiting for the answer to the question on_close asks    *)
(* ("askyesno"), or gone once the window is destroyed ("destroyed").       *)
(* Messages are tuples of strings (no concatenation).                      *)
(***************************************************************************)
EXTENDS Integers, Sequences, FiniteSets, TLC

\* ---------------------------------------------------------------- bounds
MaxHistory == 4
MaxConv == 2

\* The tab ids TabManager.tab_counter hands out (add_tab is not taken once
\* they are used up)
TabIds == {1, 2}

\* ------------------------------------------------------------- constants
None == [none |-> TRUE]
NoneField == "<None>"

STATUS_CODES ==
  [SUCCESS |-> "success", ERROR |-> "error", TIMEOUT |-> "timeout",
   NOT_FOUND |-> "not_found", INVALID_INPUT |-> "invalid_input",
   NOT_AUTHORIZED |-> "not_authorized", SERVER_ERROR |-> "server_error"]

\* The texts the operator can type into the role, goal and url entries:
\* nothing, blanks only, or a text with a blank in front of it (the text
\* without the blank comes in through saved executions).
RoleTexts == {"", " ", " tester"}
GoalTexts == {"", "find the contact page"}
UrlTexts == {"", " https://example.com"}

\* str.strip() on the entry texts above
Strip(s) ==
  CASE s = " " -> ""
    [] s = " tester" -> "tester"
    [] s = " https://example.com" -> "https://example.com"
    [] OTHER -> s

VARIABLES tabs, tab_counter, selected, is_executing, execution_history,
          role_entry, goal_entry, url_entry, entry_state, action_panel,
          status_bar, conversation_history, driver_url, ui

\* The objects of utils/threading.py and the load lock of the Playwright
\* WebPageHandler, with the threads (or coroutines) that use them.  The
\* session logic above uses none of them.
VARIABLES thread_safe_counter, pool, load_lock, operation, threads

utilVars == <<thread_safe_counter, pool, load_lock, operation, threads>>

sessionVars == <<tabs, tab_counter, selected, is_executing, execution_history,
                 role_entry, goal_entry, url_entry, entry_state, action_panel,
                 status_bar, conversation_history, driver_url, ui>>

vars == <<tabs, tab_counter, selected, is_executing, execution_history,
          role_entry, goal_entry, url_entry, entry_state, action_panel,
          status_bar, conversation_history, driver_url, ui,
          thread_safe_counter, pool, load_lock, operation, threads>>

tabVars == <<tabs, tab_counter, selected>>
entryVars == <<role_entry, goal_entry, url_entry>>

Idle == [pc |-> "idle"]
OpenTabs == {tabs[i] : i \in 1..Len(tabs)}

\* ----------------------------------------------------------- ActionPanel
NewPanel ==
  [current_action |-> None, action_label |-> "No action pending",
   execute_btn |-> "disabled"]

\* set_action as it would be if it also kept the action it shows
set_action_stores(panel, action) ==
  IF action.type = "ERROR"
    THEN [panel EXCEPT !.current_action = action,
                       !.action_label = "Error",
                       !.execute_btn = "disabled"]
    ELSE [panel EXCEPT !.current_action = action,
                       !.action_label = action.type,
                       !.execute_btn = "normal"]

\* ActionPanel.set_action: shows the action (label and Execute button; the
\* details text is display only and left out); never assigns current_action
set_action(panel, action) ==
  IF action.type = "ERROR"
    THEN [panel EXCEPT !.action_label = "Error",
                       !.execute_btn = "disabled"]
    ELSE [panel EXCEPT !.action_label = action.type,
                       !.execute_btn = "normal"]

get_action(panel) == panel.current_action

\* ------------------------------------------------------------ LLMHandler
\* _create_error_response as it would be if it put the name of the code
\* into the response instead of looking it up in STATUS_CODES
_create_error_response_raw_code(status_code, message) ==
  [type |-> "ERROR", status |-> status_code, message |-> message,
   target |-> NoneField, reasoning |-> <<"Error occurred: ">> \o message]

\* LLMHandler._create_error_response
_create_error_response(status_code, message) ==
  [type |-> "ERROR", status |-> STATUS_CODES[status_code], message |-> message,
   target |-> NoneField, reasoning |-> <<"Error occurred: ">> \o message]

\* What the upstream model can do with one request: raise one of the openai
\* errors, raise anything else, or reply with a message content.
RClick == [type |-> "CLICK", target |-> "//a", reasoning |-> <<"nav">>]
RInput == [type |-> "INPUT", target |-> "//input", reasoning |-> <<"fill">>,
           value |-> "x", progress |-> 50, next_expected_state |-> "filled"]
RNoReasoning == [type |-> "CLICK", target |-> "//button"]
RNoTarget == [type |-> "WAIT", reasoning |-> <<"wait">>]
RNoType == [target |-> "//a", reasoning |-> <<"nav">>]
RBadType == [type |-> "HOVER", target |-> "//a", reasoning |-> <<"nav">>]

ReplyObjects == {RClick, RInput, RNoReasoning, RNoTarget, RNoType, RBadType}
Contents == {[json |-> o] : o \in ReplyObjects} \cup {[text |-> "not json"]}
Upstream ==
  {[exc |-> e] : e \in {"InvalidRequestError", "AuthenticationError",
                        "APIError", "Exception"}}
  \cup {[content |-> c] : c \in Contents}

required_fields == {"type", "target", "reasoning"}

\* valid_types as it would be without CLICK
valid_types_no_click == {"SCROLL", "INPUT", "WAIT"}

valid_types == {"CLICK", "SCROLL", "INPUT", "WAIT"}

\* dict.setdefault
setdefault(d, k, v) == IF k \in DOMAIN d THEN d ELSE d @@ (k :> v)

\* LLMHandler._parse_llm_response: returns the validated action, or raises.
\* Whatever is raised inside (JSONDecodeError from json.loads, ValueError
\* from the two checks) leaves the function as a plain ValueError.
_parse_llm_response(content) ==
  LET inner ==
        IF "json" \notin DOMAIN content
          THEN [raised |-> "JSONDecodeError", msg |-> <<"Expecting value">>]
        ELSE IF ~(required_fields \subseteq DOMAIN content.json)
          THEN [raised |-> "ValueError", msg |-> <<"Missing required fields">>]
        ELSE IF content.json.type \notin valid_types
          THEN [raised |-> "ValueError",
                msg |-> <<"Invalid action type: ", content.json.type>>]
        ELSE [raised |-> "",
              action |-> setdefault(setdefault(setdefault(content.json,
                            "value", NoneField), "progress", 0),
                            "next_expected_state", NoneField)]
  IN IF inner.raised = ""
       THEN inner
       ELSE [raised |-> "ValueError",
             msg |-> <<"Failed to parse LLM response: ">> \o inner.msg]

\* The except clauses of get_llm_action, in the order they are written.
ExceptClause(raised, msg) ==
  IF raised = "InvalidRequestError"
    THEN _create_error_response("INVALID_INPUT", msg)
  ELSE IF raised = "AuthenticationError"
    THEN _create_error_response("NOT_AUTHORIZED", <<"Invalid API key">>)
  ELSE IF raised = "APIError"
    THEN _create_error_response("SERVER_ERROR", <<"OpenAI API error">>)
  ELSE IF raised = "JSONDecodeError"
    THEN _create_error_response("INVALID_INPUT",
                                <<"Invalid JSON in LLM response">>)
  ELSE _create_error_response("ERROR", msg)

\* not snapshot (a dict) / not role, not goal (strings)
FalsyDict(d) == DOMAIN d = {}
FalsyStr(x) == x = ""

\* The number of conversation entries added to the messages of a request
HistoryWindow == 3

\* conversation_history[-3:] as it would be if the whole list were sent
RecentHistoryAll(conv) == conv

\* self.conversation_history[-3:]: the last three entries, or all of them
\* when there are fewer
RecentHistory(conv) ==
  IF Len(conv) <= HistoryWindow
    THEN conv
    ELSE SubSeq(conv, Len(conv) - HistoryWindow + 1, Len(conv))

\* LLMHandler.get_llm_action: the action returned and the handler's
\* conversation_history afterwards.  api_called tells whether
\* openai.ChatCompletion.create was reached, and context holds the
\* conversation entries that were put into its messages, after the system
\* prompt and the snapshot.
get_llm_action(snapshot, role, goal, conv, upstream) ==
  IF FalsyDict(snapshot) \/ FalsyStr(role) \/ FalsyStr(goal)
    THEN [action |-> _create_error_response("INVALID_INPUT",
                                       <<"Missing required parameters">>),
          conv |-> conv, api_called |-> FALSE, context |-> <<>>]
  ELSE IF "exc" \in DOMAIN upstream
    THEN [action |-> ExceptClause(upstream.exc, <<"upstream: ", upstream.exc>>),
          conv |-> conv, api_called |-> TRUE, context |-> RecentHistory(conv)]
  ELSE LET parsed == _parse_llm_response(upstream.content)
       IN IF parsed.raised # ""
            THEN [action |-> ExceptClause(parsed.raised, parsed.msg),
                  conv |-> conv, api_called |-> TRUE,
                  context |-> RecentHistory(conv)]
            ELSE [action |-> parsed.action,
                  conv |-> Append(conv, [role |-> "assistant",
                                         content |-> [json |-> parsed.action]]),
                  api_called |-> TRUE, context |-> RecentHistory(conv)]

\* -------------------------------------------------------- WebPageHandler
\* WebPageHandler.get_snapshot: the page description, or {"error": ...}
\* when anything in the driver raises.  It never raises itself.
SnapshotOutcomes(url) ==
  {[url |-> url, elements |-> <<>>], [error |-> <<"driver failure">>]}

IsErrorSnapshot(s) == "error" \in DOMAIN s

\* WebPageHandler.perform_action: the (success, message) pairs the
\* executor can return for an action.
perform_action(action) ==
  LET action_type == IF "type" \in DOMAIN action THEN action.type ELSE ""
      ok == [success |-> TRUE, message |-> STATUS_CODES.SUCCESS]
      js == [success |-> TRUE, message |-> "success (via JavaScript)"]
      err == [success |-> FALSE, message |-> STATUS_CODES.ERROR]
  IN CASE action_type = "CLICK" -> {ok, js, err}
       [] action_type = "INPUT" -> {ok, err}
       [] action_type = "SCROLL" -> {ok, err}
       [] action_type = "WAIT" -> {ok, err}
       [] OTHER -> {[success |-> FALSE, message |-> STATUS_CODES.INVALID_INPUT]}

\* WebPageHandler.load_page: (success, status) pairs, or an exception that
\* is neither TimeoutException nor WebDriverException.
LoadOutcomes ==
  {[success |-> TRUE, message |-> STATUS_CODES.SUCCESS, raised |-> FALSE],
   [success |-> FALSE, message |-> STATUS_CODES.TIMEOUT, raised |-> FALSE],
   [success |-> FALSE, message |-> STATUS_CODES.NOT_FOUND, raised |-> FALSE],
   [success |-> FALSE, message |-> STATUS_CODES.SERVER_ERROR, raised |-> FALSE],
   [success |-> FALSE, message |-> STATUS_CODES.ERROR, raised |-> FALSE],
   [success |-> FALSE, message |-> "exception", raised |-> TRUE]}

\* ---------------------------------------------------------- ExecutionTab
\* log_action as it would be if it kept only the newest entry
log_action_replaces(history, action_type, message) ==
  <<[type |-> action_type, message |-> message]>>

\* ExecutionTab.log_action: the history with the new entry appended
log_action(history, action_type, message) ==
  Append(history, [type |-> action_type, message |-> message])

\* ExecutionTab.update_ui_state: the state of the role and goal entries
update_ui_state(executing) == IF executing THEN "disabled" ELSE "normal"

\* The evaluation of Config.AUTO_EXECUTE_ACTIONS in ui/tab.py: the module
\* never imports Config (and Config has no such attribute), so the
\* evaluation raises NameError.
AutoExecuteActions == "NameError"   \* else "True" or "False"

MsgNoRoleGoal == <<"Please specify both role and goal">>
MsgStarted == <<"Started automated execution">>
MsgStopped == <<"Stopped automated execution">>
MsgNextFailed ==
  <<"Failed to determine next action: ", "name 'Config' is not defined">>

\* ExecutionTab.handle_error: the message goes to the logger, the tab's
\* debug viewer and the status bar (write-only sinks, of which the status
\* bar is kept here); the history is not touched.
handle_error(t, message) ==
  status_bar' = [message |-> message, level |-> "error"]

\* Number of history entries held by the tabs in S together
RECURSIVE HistoryTotal(_)
HistoryTotal(S) ==
  IF S = {} THEN 0
  ELSE LET t == CHOOSE x \in S : TRUE
       IN Len(execution_history[t]) + HistoryTotal(S \ {t})

\* Room left in the bounded logs for n more history entries / one decision
HistoryRoom(n) == HistoryTotal(TabIds) + n <= MaxHistory
Room(t) == HistoryRoom(2) /\ Len(conversation_history) + 1 <= MaxConv

\* The utility objects as their constructors leave them, with no thread
\* using them
NewCounter == [_value |-> 0, _lock |-> "free"]
NewPool == [_tasks |-> [id \in {"task1", "task2"} |-> 0], futures |-> <<>>]
NewLoadLock == [_locked |-> FALSE, _waiters |-> <<>>]
NewOperation == [_thread |-> 0, _cancelled |-> FALSE, _completed |-> FALSE]

UtilInit ==
  /\ thread_safe_counter = NewCounter
  /\ pool = NewPool
  /\ load_lock = NewLoadLock
  /\ operation = NewOperation
  /\ threads = <<>>

\* The application after AgentExecutiveApp.__init__: one tab, nothing
\* entered, nothing running
AppInit ==
  /\ tabs = <<1>>
  /\ tab_counter = 1
  /\ selected = 1
  /\ is_executing = [t \in TabIds |-> FALSE]
  /\ execution_history = [t \in TabIds |-> <<>>]
  /\ role_entry = [t \in TabIds |-> ""]
  /\ goal_entry = [t \in TabIds |-> ""]
  /\ url_entry = [t \in TabIds |-> ""]
  /\ entry_state = [t \in TabIds |-> "normal"]
  /\ action_panel = [t \in TabIds |-> NewPanel]
  /\ status_bar = [message |-> <<"Ready">>, level |-> "info"]
  /\ conversation_history = <<>>
  /\ driver_url = "data:,"
  /\ ui = Idle

Init ==
  /\ UtilInit
  /\ AppInit

\* The operator types into the role entry (ignored while it is disabled).
SetRole(t, v) ==
  /\ UNCHANGED utilVars
  /\ ui.pc = "idle" /\ t \in OpenTabs
  /\ entry_state[t] = "normal"
  /\ role_entry[t] # v
  /\ role_entry' = [role_entry EXCEPT ![t] = v]
  /\ UNCHANGED <<tabVars, is_executing, execution_history, goal_entry,
                 url_entry, entry_state, action_panel, status_bar, conversation_history, driver_url, ui>>

SetGoal(t, v) ==
  /\ UNCHANGED utilVars
  /\ ui.pc = "idle" /\ t \in OpenTabs
  /\ entry_state[t] = "normal"
  /\ goal_entry[t] # v
  /\ goal_entry' = [goal_entry EXCEPT ![t] = v]
  /\ UNCHANGED <<tabVars, is_executing, execution_history, role_entry,
                 url_entry, entry_state, action_panel, status_bar, conversation_history, driver_url, ui>>

SetUrl(t, v) ==
  /\ UNCHANGED utilVars
  /\ ui.pc = "idle" /\ t \in OpenTabs
  /\ url_entry[t] # v
  /\ url_entry' = [url_entry EXCEPT ![t] = v]
  /\ UNCHANGED <<tabVars, is_executing, execution_history, role_entry,
                 goal_entry, entry_state, action_panel, status_bar, conversation_history, driver_url, ui>>

\* ExecutionTab.execute_next_action up to its first call: returns at once
\* unless the session is executing, else get_snapshot is called.
ExecuteNextActionEntry(t, executing) ==
  IF executing THEN [pc |-> "snapshot", tab |-> t] ELSE Idle

\* start_execution without the check of role and goal
StartExecutionNoValidation(t) ==
  /\ UNCHANGED utilVars
  /\ ui.pc = "idle" /\ t \in OpenTabs
  /\ Room(t)
  /\ IF is_executing[t]
       THEN UNCHANGED vars
       ELSE /\ is_executing' = [is_executing EXCEPT ![t] = TRUE]
            /\ entry_state' = [entry_state EXCEPT ![t] = update_ui_state(TRUE)]
            /\ execution_history' = [execution_history EXCEPT
                   ![t] = log_action(@, "execution", MsgStarted)]
            /\ ui' = ExecuteNextActionEntry(t, is_executing'[t])
            /\ UNCHANGED <<tabVars, entryVars, action_panel,
                           status_bar, conversation_history, driver_url>>

\* start_execution without the is_executing guard at its top
StartExecutionNoGuard(t) ==
  /\ UNCHANGED utilVars
  /\ ui.pc = "idle" /\ t \in OpenTabs
  /\ Room(t)
  /\ IF Strip(role_entry[t]) = "" \/ Strip(goal_entry[t]) = ""
       THEN /\ handle_error(t, MsgNoRoleGoal)
            /\ UNCHANGED <<tabVars, entryVars, is_executing, execution_history,
                           entry_state, action_panel, conversation_history,
                           driver_url, ui>>
       ELSE /\ is_executing' = [is_executing EXCEPT ![t] = TRUE]
            /\ entry_state' = [entry_state EXCEPT ![t] = update_ui_state(TRUE)]
            /\ execution_history' = [execution_history EXCEPT
                   ![t] = log_action(@, "execution", MsgStarted)]
            /\ ui' = ExecuteNextActionEntry(t, is_executing'[t])
            /\ UNCHANGED <<tabVars, entryVars, action_panel, status_bar,
                           conversation_history, driver_url>>

\* ExecutionTab.start_execution (Start button): guard, validation, and the
\* first iteration up to the get_snapshot call.
StartExecution(t) ==
  /\ UNCHANGED utilVars
  /\ ui.pc = "idle" /\ t \in OpenTabs
  /\ Room(t)
  /\ IF is_executing[t]
       THEN UNCHANGED vars
     ELSE IF Strip(role_entry[t]) = "" \/ Strip(goal_entry[t]) = ""
       THEN /\ handle_error(t, MsgNoRoleGoal)
            /\ UNCHANGED <<tabVars, entryVars, is_executing, execution_history,
                           entry_state, action_panel, conversation_history,
                           driver_url, ui>>
     ELSE /\ is_executing' = [is_executing EXCEPT ![t] = TRUE]
          /\ entry_state' = [entry_state EXCEPT ![t] = update_ui_state(TRUE)]
          /\ execution_history' = [execution_history EXCEPT
                 ![t] = log_action(@, "execution", MsgStarted)]
          /\ ui' = ExecuteNextActionEntry(t, is_executing'[t])
          /\ UNCHANGED <<tabVars, entryVars, action_panel, status_bar, conversation_history, driver_url>>

\* stop_execution as it would be if stopping cleared the history first
stop_execution_clears(t) ==
  IF ~is_executing[t]
    THEN UNCHANGED <<is_executing, entry_state, execution_history>>
    ELSE /\ is_executing' = [is_executing EXCEPT ![t] = FALSE]
         /\ entry_state' = [entry_state EXCEPT ![t] = update_ui_state(FALSE)]
         /\ execution_history' = [execution_history EXCEPT
                ![t] = log_action(<<>>, "execution", MsgStopped)]

\* ExecutionTab.stop_execution: what it does to the session
stop_execution(t) ==
  IF ~is_executing[t]
    THEN UNCHANGED <<is_executing, entry_state, execution_history>>
    ELSE /\ is_executing' = [is_executing EXCEPT ![t] = FALSE]
         /\ entry_state' = [entry_state EXCEPT ![t] = update_ui_state(FALSE)]
         /\ execution_history' = [execution_history EXCEPT
                ![t] = log_action(@, "execution", MsgStopped)]

\* stop_execution as it would run if the Stop event were handled while an
\* iteration of the loop is still in flight
StopExecutionMidIteration(t) ==
  /\ UNCHANGED utilVars
  /\ t \in OpenTabs
  /\ HistoryRoom(1)
  /\ stop_execution(t)
  /\ UNCHANGED <<tabVars, entryVars, action_panel,
                 status_bar, conversation_history, driver_url, ui>>

\* The Stop button or the Escape key: stop_execution as an event handler
StopExecution(t) ==
  /\ UNCHANGED utilVars
  /\ ui.pc = "idle" /\ t \in OpenTabs
  /\ HistoryRoom(1)
  /\ stop_execution(t)
  /\ UNCHANGED <<tabVars, entryVars, action_panel, status_bar, conversation_history, driver_url, ui>>

\* WebPageHandler.get_snapshot returns; execute_next_action passes the
\* result, whatever it is, to get_llm_action, together with the texts the
\* role and goal entries hold at that moment.
GetSnapshot(t) ==
  /\ UNCHANGED utilVars
  /\ ui.pc = "snapshot" /\ ui.tab = t
  /\ \E s \in SnapshotOutcomes(driver_url) :
       ui' = [pc |-> "decide", tab |-> t, snapshot |-> s,
              role |-> role_entry[t], goal |-> goal_entry[t]]
  /\ UNCHANGED <<tabVars, entryVars, is_executing, execution_history,
                 entry_state, action_panel, status_bar,
                 conversation_history, driver_url>>

\* LLMHandler.get_llm_action returns its action to execute_next_action.
GetLLMAction(t) ==
  /\ UNCHANGED utilVars
  /\ ui.pc = "decide" /\ ui.tab = t
  /\ \E up \in Upstream :
       LET r == get_llm_action(ui.snapshot, ui.role, ui.goal,
                               conversation_history, up)
       IN /\ conversation_history' = r.conv
          /\ ui' = [pc |-> "set_action", tab |-> t, snapshot |-> ui.snapshot,
                    response |-> up, action |-> r.action,
                    api_called |-> r.api_called, context |-> r.context]
  /\ UNCHANGED <<tabVars, entryVars, is_executing, execution_history,
                 entry_state, action_panel, status_bar,
                 driver_url>>

\* execute_action without the check that the panel holds an action
ExecuteActionEntryNoCheck(t, panel) ==
  [pc |-> "perform", tab |-> t, action |-> get_action(panel)]

\* ExecutionTab.execute_action up to its call of perform_action: nothing
\* happens unless the panel holds a current action.
ExecuteActionEntry(t, panel) ==
  IF get_action(panel) = None
    THEN Idle
    ELSE [pc |-> "perform", tab |-> t, action |-> get_action(panel)]

\* The rest of execute_next_action once the decision is there: show it in
\* the panel, then read the auto-execute flag.  Reading the flag raises, so
\* the except clause reports the error and stops the session.
ShowAction(t) ==
  /\ UNCHANGED utilVars
  /\ ui.pc = "set_action" /\ ui.tab = t
  /\ action_panel' = [action_panel EXCEPT ![t] = set_action(@, ui.action)]
  /\ IF AutoExecuteActions = "NameError"
       THEN /\ handle_error(t, MsgNextFailed)
            /\ stop_execution(t)
            /\ ui' = Idle
     ELSE IF AutoExecuteActions = "True"
       THEN /\ ui' = ExecuteActionEntry(t, action_panel'[t])
            /\ UNCHANGED <<status_bar, is_executing,
                           entry_state, execution_history>>
     ELSE /\ ui' = Idle
          /\ UNCHANGED <<status_bar, is_executing,
                         entry_state, execution_history>>
  /\ UNCHANGED <<tabVars, entryVars, conversation_history, driver_url>>

\* execute_action as it would run if the Control-Return event were handled
\* while a call of the loop is still in flight
ExecuteActionMidCall(t) ==
  /\ UNCHANGED utilVars
  /\ t \in OpenTabs
  /\ Room(t)
  /\ ui' = ExecuteActionEntry(t, action_panel[t])
  /\ UNCHANGED <<tabVars, entryVars, is_executing, execution_history,
                 entry_state, action_panel, status_bar,
                 conversation_history, driver_url>>

\* Control-Return: ExecutionTab.execute_action as an event handler
ExecuteAction(t) ==
  /\ UNCHANGED utilVars
  /\ ui.pc = "idle" /\ t \in OpenTabs
  /\ Room(t)
  /\ ui' = ExecuteActionEntry(t, action_panel[t])
  /\ UNCHANGED <<tabVars, entryVars, is_executing, execution_history,
                 entry_state, action_panel, status_bar,
                 conversation_history, driver_url>>

\* The Execute Action button: ActionPanel.execute_action, which calls
\* on_execute (ExecutionTab.execute_action) only with a current action.
PanelExecuteAction(t) ==
  /\ UNCHANGED utilVars
  /\ ui.pc = "idle" /\ t \in OpenTabs
  /\ Room(t)
  /\ action_panel[t].execute_btn = "normal"
  /\ IF action_panel[t].current_action # None
       THEN /\ action_panel' = [action_panel EXCEPT
                                  ![t].execute_btn = "disabled"]
            /\ ui' = ExecuteActionEntry(t, action_panel[t])
       ELSE UNCHANGED <<action_panel, ui>>
  /\ UNCHANGED <<tabVars, entryVars, is_executing, execution_history,
                 entry_state, status_bar,
                 conversation_history, driver_url>>

\* WebPageHandler.perform_action returns (success, message) to
\* execute_action.
PerformAction(t) ==
  /\ UNCHANGED utilVars
  /\ ui.pc = "perform" /\ ui.tab = t
  /\ \E r \in perform_action(ui.action) :
       ui' = [pc |-> "performed", tab |-> t, action |-> ui.action,
              result |-> r]
  /\ UNCHANGED <<tabVars, entryVars, is_executing, execution_history,
                 entry_state, action_panel, status_bar,
                 conversation_history, driver_url>>

\* The rest of execute_action: on success the result is logged and, while
\* executing, the next iteration begins; on failure only handle_error is
\* called.
HandleResult(t) ==
  /\ UNCHANGED utilVars
  /\ ui.pc = "performed" /\ ui.tab = t
  /\ IF ui.result.success
       THEN /\ execution_history' = [execution_history EXCEPT
                 ![t] = log_action(@, "action",
                     <<"Executed ", ui.action.type, ": ", ui.result.message>>)]
            /\ ui' = IF is_executing[t]
                       THEN ExecuteNextActionEntry(t, is_executing[t])
                       ELSE Idle
            /\ UNCHANGED status_bar
       ELSE /\ handle_error(t, <<"Action failed: ", ui.result.message>>)
            /\ ui' = Idle
            /\ UNCHANGED execution_history
  /\ UNCHANGED <<tabVars, entryVars, is_executing, entry_state, action_panel,
                 conversation_history, driver_url>>

\* ExecutionTab.on_url_navigate (Go button, Return in the url entry): the
\* result of load_page is not looked at; only an exception is an error.
OnUrlNavigate(t) ==
  /\ UNCHANGED utilVars
  /\ ui.pc = "idle" /\ t \in OpenTabs
  /\ HistoryRoom(1)
  /\ LET url == Strip(url_entry[t])
     IN IF url = ""
          THEN UNCHANGED vars
          ELSE /\ \E r \in LoadOutcomes :
                    IF r.raised
                      THEN /\ handle_error(t, <<"Navigation failed: ", r.message>>)
                           /\ UNCHANGED <<execution_history, driver_url>>
                      ELSE /\ driver_url' = IF r.success THEN url ELSE driver_url
                           /\ execution_history' = [execution_history EXCEPT
                                ![t] = log_action(@, "navigation",
                                                  <<"Navigated to ", url>>)]
                           /\ UNCHANGED <<status_bar>>
               /\ UNCHANGED <<tabVars, entryVars, is_executing, entry_state,
                              action_panel, conversation_history, ui>>

\* ------------------------------------------------------------ TabManager
\* The tab the notebook selects when the selected tab is forgotten
Remove(seq, x) == SelectSeq(seq, LAMBDA y : y # x)

IndexOf(seq, x) == CHOOSE i \in 1..Len(seq) : seq[i] = x

\* TabManager.add_tab: counter, list of tabs and selection afterwards
add_tab(ts, counter) ==
  [tabs |-> Append(ts, counter + 1), tab_counter |-> counter + 1,
   selected |-> counter + 1]

\* TabManager.close_tab: forget the tab, and add a fresh one if none is left
close_tab(ts, counter, sel, tab) ==
  IF tab \notin {ts[i] : i \in 1..Len(ts)}
    THEN [tabs |-> ts, tab_counter |-> counter, selected |-> sel]
  ELSE LET rest == Remove(ts, tab)
           i == IndexOf(ts, tab)
       IN IF rest = <<>>
            THEN add_tab(rest, counter)
            ELSE [tabs |-> rest, tab_counter |-> counter,
                  selected |-> IF sel # tab THEN sel
                               ELSE IF i <= Len(rest) THEN rest[i]
                               ELSE rest[Len(rest)]]

\* TabManager.on_tab_changed
ActiveStatus(t) == [message |-> <<"Active: Execution ", ToString(t)>>,
                    level |-> "info"]

\* The operator clicks another tab of the notebook.
SelectTab(t) ==
  /\ UNCHANGED utilVars
  /\ ui.pc = "idle" /\ t \in OpenTabs /\ t # selected
  /\ selected' = t
  /\ status_bar' = ActiveStatus(t)
  /\ UNCHANGED <<tabs, tab_counter, entryVars, is_executing,
                 execution_history, entry_state, action_panel, conversation_history, driver_url, ui>>

\* AgentExecutiveApp.on_new_tab
OnNewTab ==
  /\ UNCHANGED utilVars
  /\ ui.pc = "idle"
  /\ tab_counter + 1 \in TabIds
  /\ LET r == add_tab(tabs, tab_counter)
     IN /\ tabs' = r.tabs
        /\ tab_counter' = r.tab_counter
        /\ selected' = r.selected
  /\ status_bar' = [message |-> <<"New tab created">>, level |-> "info"]
  /\ UNCHANGED <<entryVars, is_executing, execution_history, entry_state,
                 action_panel, conversation_history,
                 driver_url, ui>>

\* A closed tab is no longer reachable through the TabManager; the model
\* drops its history, entries and panel.  close_tab does not touch
\* is_executing.
Forget(t) ==
  /\ execution_history' = [execution_history EXCEPT ![t] = <<>>]
  /\ role_entry' = [role_entry EXCEPT ![t] = ""]
  /\ goal_entry' = [goal_entry EXCEPT ![t] = ""]
  /\ url_entry' = [url_entry EXCEPT ![t] = ""]
  /\ action_panel' = [action_panel EXCEPT ![t] = NewPanel]

\* AgentExecutiveApp.on_close_tab: closes the selected tab; while it is
\* executing the operator is asked first and may refuse.
OnCloseTab ==
  /\ UNCHANGED utilVars
  /\ ui.pc = "idle"
  /\ Len(tabs) = 1 => tab_counter + 1 \in TabIds
  /\ \E confirmed \in BOOLEAN :
       IF is_executing[selected] /\ ~confirmed
         THEN UNCHANGED vars
         ELSE LET r == close_tab(tabs, tab_counter, selected, selected)
              IN /\ tabs' = r.tabs
                 /\ tab_counter' = r.tab_counter
                 /\ selected' = r.selected
                 /\ status_bar' = IF r.selected # selected
                                    THEN ActiveStatus(r.selected)
                                    ELSE status_bar
                 /\ Forget(selected)
                 /\ UNCHANGED <<is_executing, entry_state,
                                conversation_history, driver_url, ui>>

\* has_executing_tabs as it would be if it never reported a session
has_executing_tabs_never(ts, executing) == FALSE

\* TabManager.has_executing_tabs: any(tab.is_executing for tab in self.tabs)
has_executing_tabs(ts, executing) ==
  \E i \in 1..Len(ts) : executing[ts[i]]

\* The open tabs stop_all_executions finds executing
ExecutingTabs == {t \in OpenTabs : is_executing[t]}

\* TabManager.stop_all_executions: stop_execution on every tab of self.tabs
\* that is executing
stop_all_executions ==
  /\ is_executing' = [t \in TabIds |->
                        IF t \in ExecutingTabs THEN FALSE ELSE is_executing[t]]
  /\ entry_state' = [t \in TabIds |->
                       IF t \in ExecutingTabs THEN update_ui_state(FALSE)
                       ELSE entry_state[t]]
  /\ execution_history' = [t \in TabIds |->
                             IF t \in ExecutingTabs
                               THEN log_action(execution_history[t],
                                               "execution", MsgStopped)
                               ELSE execution_history[t]]

\* AgentExecutiveApp.cleanup and root.destroy(): the sessions are stopped,
\* the driver is quit (WebPageHandler.cleanup swallows what that raises),
\* the window goes with the texts of its entries, panels and status bar,
\* and the main loop ends.  asked tells whether the operator was asked
\* first.
cleanup(asked) ==
  /\ stop_all_executions
  /\ ui' = [pc |-> "destroyed", asked |-> asked]
  /\ role_entry' = [t \in TabIds |-> ""]
  /\ goal_entry' = [t \in TabIds |-> ""]
  /\ url_entry' = [t \in TabIds |-> ""]
  /\ action_panel' = [t \in TabIds |-> NewPanel]
  /\ status_bar' = [message |-> <<>>, level |-> "info"]
  /\ driver_url' = ""
  /\ UNCHANGED <<tabVars, conversation_history>>

\* AgentExecutiveApp.on_close (window close button, File/Exit) up to the
\* question it asks while sessions are executing
OnClose ==
  /\ UNCHANGED utilVars
  /\ ui.pc = "idle"
  /\ HistoryRoom(Cardinality(ExecutingTabs))
  /\ IF has_executing_tabs(tabs, is_executing)
       THEN /\ ui' = [pc |-> "askyesno"]
            /\ UNCHANGED <<tabVars, entryVars, is_executing, execution_history,
                           entry_state, action_panel, status_bar,
                           conversation_history, driver_url>>
       ELSE cleanup(FALSE)

\* The operator answers the question of on_close: No returns to the main
\* loop, Yes goes on to cleanup and destroy.
AnswerQuit(yes) ==
  /\ UNCHANGED utilVars
  /\ ui.pc = "askyesno"
  /\ IF yes
       THEN cleanup(TRUE)
       ELSE /\ ui' = Idle
            /\ UNCHANGED <<tabVars, entryVars, is_executing, execution_history,
                           entry_state, action_panel, status_bar,
                           conversation_history, driver_url>>

\* The saved executions the operator can pick in the file dialog
SavedFiles ==
  {[url |-> "https://example.com", role |-> "tester",
    goal |-> "find the contact page",
    history |-> <<[type |-> "execution", message |-> MsgStarted],
                  [type |-> "execution", message |-> MsgStopped]>>]}

\* ExecutionTab.get_execution_data: the record on_save_execution writes to
\* the file.  The url is what UrlBar.get_url returns (the stripped text of
\* the entry); the time of saving is left out, as the times of the entries
\* are.  json.dump and json.load give back the strings and lists unchanged.
get_execution_data(t) ==
  [url |-> Strip(url_entry[t]), role |-> role_entry[t],
   goal |-> goal_entry[t], history |-> execution_history[t]]

\* AgentExecutiveApp.on_save_execution: the selected tab is written to the
\* file the operator names.
OnSaveExecution ==
  /\ UNCHANGED utilVars
  /\ ui.pc = "idle"
  /\ selected \in OpenTabs
  /\ status_bar' = [message |-> <<"Execution saved to file">>,
                    level |-> "success"]
  /\ UNCHANGED <<tabVars, entryVars, is_executing, execution_history,
                 entry_state, action_panel, conversation_history,
                 driver_url, ui>>

\* The files the operator can pick in the Load dialog: the older ones and
\* what on_save_execution writes for an open tab
FilesToOpen == SavedFiles \cup {get_execution_data(t) : t \in OpenTabs}

\* load_execution_data as it would be if it showed the entries in the
\* history viewer without keeping them
load_execution_data_no_history(history, data) ==
  [url_entry |-> data.url, role_entry |-> data.role,
   goal_entry |-> data.goal, execution_history |-> history]

\* ExecutionTab.load_execution_data on a tab add_tab has just made: set_url
\* replaces the text of the url entry, insert(0, ...) puts role and goal
\* into the (empty) entries, and the entries of the file are appended to
\* the history.
load_execution_data(history, data) ==
  [url_entry |-> data.url, role_entry |-> data.role,
   goal_entry |-> data.goal, execution_history |-> history \o data.history]

\* AgentExecutiveApp.on_load_execution with ExecutionTab.load_execution_data:
\* a new tab is added and filled from the file.
OnLoadExecution(data) ==
  /\ UNCHANGED utilVars
  /\ ui.pc = "idle"
  /\ tab_counter + 1 \in TabIds
  /\ HistoryRoom(Len(data.history))
  /\ LET r == add_tab(tabs, tab_counter)
         t == r.selected
         loaded == load_execution_data(execution_history[t], data)
     IN /\ tabs' = r.tabs
        /\ tab_counter' = r.tab_counter
        /\ selected' = r.selected
        /\ url_entry' = [url_entry EXCEPT ![t] = loaded.url_entry]
        /\ role_entry' = [role_entry EXCEPT ![t] = loaded.role_entry]
        /\ goal_entry' = [goal_entry EXCEPT ![t] = loaded.goal_entry]
        /\ execution_history' = [execution_history EXCEPT
                                  ![t] = loaded.execution_history]
  /\ status_bar' = [message |-> <<"Execution loaded from file">>,
                    level |-> "success"]
  /\ UNCHANGED <<is_executing, entry_state, action_panel,
                 conversation_history, driver_url, ui>>

Next ==
  \/ \E t \in TabIds : \E v \in RoleTexts : SetRole(t, v)
  \/ \E t \in TabIds : \E v \in GoalTexts : SetGoal(t, v)
  \/ \E t \in TabIds : \E v \in UrlTexts : SetUrl(t, v)
  \/ \E t \in TabIds : StartExecution(t)
  \/ \E t \in TabIds : StopExecution(t)
  \/ \E t \in TabIds : GetSnapshot(t)
  \/ \E t \in TabIds : GetLLMAction(t)
  \/ \E t \in TabIds : ShowAction(t)
  \/ \E t \in TabIds : ExecuteAction(t)
  \/ \E t \in TabIds : PanelExecuteAction(t)
  \/ \E t \in TabIds : OnUrlNavigate(t)
  \/ \E t \in TabIds : SelectTab(t)
  \/ OnNewTab
  \/ OnCloseTab
  \/ OnSaveExecution
  \/ \E data \in FilesToOpen : OnLoadExecution(data)
  \/ OnClose

\* From Init no perform_action call is reachable (set_action never stores
\* the action) and no session is executing while the main loop waits, so
\* Next leaves out the two steps that follow such a call and the answer to
\* the question on_close asks about executing sessions.
Spec == Init /\ [][Next]_vars

\* ExecutionTab.execute_action on its own.  tests/test_ui.py expects the
\* panel to hold the action that set_action was given; InitExecute draws
\* the first session with such a pending action, either started (executing,
\* waiting for the operator to execute the proposal) or not.
PendingActions ==
  {_parse_llm_response([json |-> o]).action : o \in {RClick, RInput}}

InitExecute ==
  /\ UtilInit
  /\ tabs = <<1>>
  /\ tab_counter = 1
  /\ selected = 1
  /\ \E e \in BOOLEAN :
       /\ is_executing = [t \in TabIds |-> t = 1 /\ e]
       /\ entry_state = [t \in TabIds |-> update_ui_state(t = 1 /\ e)]
       /\ execution_history =
            [t \in TabIds |-> IF t = 1 /\ e
                                THEN log_action(<<>>, "execution", MsgStarted)
                                ELSE <<>>]
  /\ role_entry = [t \in TabIds |-> IF t = 1 THEN "tester" ELSE ""]
  /\ goal_entry = [t \in TabIds |-> IF t = 1 THEN "find the contact page"
                                    ELSE ""]
  /\ url_entry = [t \in TabIds |-> ""]
  /\ \E a \in PendingActions :
       action_panel = [t \in TabIds |->
          IF t = 1 THEN [current_action |-> a, action_label |-> a.type,
                         execute_btn |-> "normal"]
                   ELSE NewPanel]
  /\ status_bar = [message |-> <<"Ready">>, level |-> "info"]
  /\ conversation_history = <<>>
  /\ driver_url = "data:,"
  /\ ui = Idle

\* The session commands and the steps of the loop, this time with the two
\* steps that follow a perform_action call.
NextExecute ==
  \/ \E t \in TabIds : StartExecution(t)
  \/ \E t \in TabIds : StopExecution(t)
  \/ \E t \in TabIds : GetSnapshot(t)
  \/ \E t \in TabIds : GetLLMAction(t)
  \/ \E t \in TabIds : ShowAction(t)
  \/ \E t \in TabIds : ExecuteAction(t)
  \/ \E t \in TabIds : PanelExecuteAction(t)
  \/ \E t \in TabIds : PerformAction(t)
  \/ \E t \in TabIds : HandleResult(t)
  \/ OnCloseTab
  \/ OnClose
  \/ \E yes \in BOOLEAN : AnswerQuit(yes)

SpecExecute == InitExecute /\ [][NextExecute]_vars

\* LLMHandler.get_llm_action on its own, as tests/test_handlers.py calls it:
\* the call is in flight with any snapshot (an empty one included) and any
\* role and goal, whether or not start_execution would have let them pass.
DecideSnapshots == SnapshotOutcomes("data:,") \cup {<<>>}

\* The handler has answered up to MaxPast calls before: its
\* conversation_history holds one assistant entry for each call that
\* returned a parsed action.
MaxPast == 4

AssistantEntries ==
  {[role |-> "assistant", content |-> [json |-> _parse_llm_response(c).action]] :
     c \in {c \in Contents : _parse_llm_response(c).raised = ""}}

PastConversations == UNION {[1..n -> AssistantEntries] : n \in 0..MaxPast}

InitDecide ==
  /\ UtilInit
  /\ tabs = <<1>>
  /\ tab_counter = 1
  /\ selected = 1
  /\ is_executing = [t \in TabIds |-> t = 1]
  /\ entry_state = [t \in TabIds |-> update_ui_state(t = 1)]
  /\ execution_history =
       [t \in TabIds |-> IF t = 1 THEN log_action(<<>>, "execution", MsgStarted)
                                  ELSE <<>>]
  /\ \E role \in RoleTexts \cup {"tester"} : \E goal \in GoalTexts :
       \E s \in DecideSnapshots :
         /\ role_entry = [t \in TabIds |-> IF t = 1 THEN role ELSE ""]
         /\ goal_entry = [t \in TabIds |-> IF t = 1 THEN goal ELSE ""]
         /\ ui = [pc |-> "decide", tab |-> 1, snapshot |-> s,
                  role |-> role, goal |-> goal]
  /\ url_entry = [t \in TabIds |-> ""]
  /\ action_panel = [t \in TabIds |-> NewPanel]
  /\ status_bar = [message |-> <<"Ready">>, level |-> "info"]
  /\ conversation_history \in PastConversations
  /\ driver_url = "data:,"

NextDecide ==
  \/ \E t \in TabIds : GetLLMAction(t)
  \/ \E t \in TabIds : ShowAction(t)
  \/ \E t \in TabIds : StartExecution(t)
  \/ \E t \in TabIds : GetSnapshot(t)

SpecDecide == InitDecide /\ [][NextDecide]_vars

\* ------------------------------------------------------ ThreadSafeCounter
\* One counter used by several threads.  A thread calls increment,
\* decrement or value; the statements of the method are its steps, and the
\* threads' steps interleave in any order.
CounterThreads == {"T1", "T2", "T3"}

\* Calls a thread makes
MaxCalls == 2

CounterOps == {"increment", "decrement", "value"}

\* ThreadSafeCounter(initial): the values the counter is constructed with
InitialValues == {0, 1}

Max(a, b) == IF a >= b THEN a ELSE b

\* A thread between calls: op and ret are the last call and its result,
\* tmp the value a call has read
Resting == [pc |-> "idle", calls |-> 0, op |-> "", tmp |-> 0, ret |-> 0]

InitCounter ==
  /\ AppInit
  /\ \E initial \in InitialValues :
       thread_safe_counter = [_value |-> initial, _lock |-> "free"]
  /\ pool = NewPool
  /\ load_lock = NewLoadLock
  /\ operation = NewOperation
  /\ threads = [th \in CounterThreads |-> Resting]

\* A thread calls increment(), decrement() or the value property
CounterCall(th, op) ==
  /\ threads[th].pc = "idle"
  /\ threads[th].calls < MaxCalls
  /\ threads' = [threads EXCEPT ![th] =
                   [pc |-> "acquire", op |-> op, calls |-> @.calls + 1,
                    tmp |-> 0, ret |-> 0]]
  /\ UNCHANGED <<sessionVars, thread_safe_counter, pool, load_lock, operation>>

\* Entering the with block without waiting for the lock
AcquireNoLock(th) ==
  /\ threads[th].pc = "acquire"
  /\ threads' = [threads EXCEPT ![th].pc =
                   IF threads[th].op = "value" THEN "return" ELSE "read"]
  /\ UNCHANGED <<sessionVars, thread_safe_counter, pool, load_lock, operation>>

\* with self._lock: the thread goes on once it has got the lock
Acquire(th) ==
  /\ threads[th].pc = "acquire"
  /\ thread_safe_counter._lock = "free"
  /\ thread_safe_counter' = [thread_safe_counter EXCEPT !._lock = th]
  /\ threads' = [threads EXCEPT ![th].pc =
                   IF threads[th].op = "value" THEN "return" ELSE "read"]
  /\ UNCHANGED <<sessionVars, pool, load_lock, operation>>

\* The right-hand side: self._value is read
ReadValue(th) ==
  /\ threads[th].pc = "read"
  /\ threads' = [threads EXCEPT ![th].pc = "write",
                                 ![th].tmp = thread_safe_counter._value]
  /\ UNCHANGED <<sessionVars, thread_safe_counter, pool, load_lock, operation>>

\* The assignment: self._value += 1, or self._value = max(0, self._value - 1)
WriteValue(th) ==
  /\ threads[th].pc = "write"
  /\ thread_safe_counter' = [thread_safe_counter EXCEPT !._value =
        IF threads[th].op = "increment"
          THEN threads[th].tmp + 1
          ELSE Max(0, threads[th].tmp - 1)]
  /\ threads' = [threads EXCEPT ![th].pc = "return"]
  /\ UNCHANGED <<sessionVars, pool, load_lock, operation>>

\* return self._value: the value is read for the caller
ReturnValue(th) ==
  /\ threads[th].pc = "return"
  /\ threads' = [threads EXCEPT ![th].pc = "release",
                                 ![th].ret = thread_safe_counter._value]
  /\ UNCHANGED <<sessionVars, thread_safe_counter, pool, load_lock, operation>>

\* Leaving the with block releases the lock; the caller has its result
Release(th) ==
  /\ threads[th].pc = "release"
  /\ thread_safe_counter' = [thread_safe_counter EXCEPT !._lock =
        IF @ = th THEN "free" ELSE @]
  /\ threads' = [threads EXCEPT ![th].pc = "idle", ![th].tmp = 0]
  /\ UNCHANGED <<sessionVars, pool, load_lock, operation>>

NextCounter ==
  \/ \E th \in CounterThreads : \E op \in CounterOps : CounterCall(th, op)
  \/ \E th \in CounterThreads : Acquire(th)
  \/ \E th \in CounterThreads : ReadValue(th)
  \/ \E th \in CounterThreads : WriteValue(th)
  \/ \E th \in CounterThreads : ReturnValue(th)
  \/ \E th \in CounterThreads : Release(th)

SpecCounter == InitCounter /\ [][NextCounter]_vars

\* ------------------------------------------------------------- ThreadPool
\* One pool used by two client threads.  pool.futures holds every future
\* the executor has handed out, in the order of submission, and
\* pool._tasks maps a task id to its registered future (0: not
\* registered).  A statement block under self._lock is one step.
PoolClients == {"C1", "C2"}
TaskIds == {"task1", "task2"}
TaskArgs == {1, 2}

\* Futures handed out
MaxSubmits == 3

\* The pool of tests/test_threading.py: ThreadPool(max_workers=2)
max_workers == 2

\* The task of tests/test_threading.py
task(x) == x * 2

NoResult == [raised |-> "", value |-> 0]
Returned(v) == [raised |-> "", value |-> v]
Raised(what) == [raised |-> what, value |-> 0]

PoolResting == [pc |-> "idle", task_id |-> "", future |-> 0, ret |-> NoResult]

InitPool ==
  /\ AppInit
  /\ thread_safe_counter = NewCounter
  /\ pool = NewPool
  /\ load_lock = NewLoadLock
  /\ operation = NewOperation
  /\ threads = [th \in PoolClients |-> PoolResting]

Running(futures) == {f \in 1..Len(futures) : futures[f].state = "running"}
Pending(futures) == {f \in 1..Len(futures) : futures[f].state = "pending"}

\* ThreadPool.submit: raises if the id is registered, else hands the
\* function to the executor and registers the future under the id.
submit(th, task_id, x) ==
  /\ threads[th].pc = "idle"
  /\ IF pool._tasks[task_id] # 0
       THEN /\ threads' = [threads EXCEPT ![th] =
                 [PoolResting EXCEPT !.ret = Raised("already exists")]]
            /\ UNCHANGED pool
       ELSE /\ Len(pool.futures) < MaxSubmits
            /\ pool' = [_tasks |-> [pool._tasks EXCEPT
                                      ![task_id] = Len(pool.futures) + 1],
                        futures |-> Append(pool.futures,
                            [task_id |-> task_id, x |-> x, state |-> "pending",
                             fetched |-> FALSE])]
            /\ threads' = [threads EXCEPT ![th] =
                 PoolResting]
  /\ UNCHANGED <<sessionVars, thread_safe_counter, load_lock, operation>>

\* ThreadPoolExecutor: a free worker takes the oldest pending future
WorkerTakes(f) ==
  /\ f \in Pending(pool.futures)
  /\ \A g \in Pending(pool.futures) : f <= g
  /\ Cardinality(Running(pool.futures)) < max_workers
  /\ pool' = [pool EXCEPT !.futures[f].state = "running"]
  /\ UNCHANGED <<sessionVars, thread_safe_counter, load_lock, operation,
                 threads>>

\* The function returns in its worker: the future is done
WorkerFinishes(f) ==
  /\ f \in Running(pool.futures)
  /\ pool' = [pool EXCEPT !.futures[f].state = "done"]
  /\ UNCHANGED <<sessionVars, thread_safe_counter, load_lock, operation,
                 threads>>

\* get_result, first block: the future registered under the id is looked
\* up; without one the call raises.
get_result_lookup(th, task_id) ==
  /\ threads[th].pc = "idle"
  /\ threads' = [threads EXCEPT ![th] =
        IF pool._tasks[task_id] = 0
          THEN [PoolResting EXCEPT !.ret = Raised("not found")]
          ELSE [pc |-> "result", task_id |-> task_id,
                future |-> pool._tasks[task_id], ret |-> NoResult]]
  /\ UNCHANGED <<sessionVars, thread_safe_counter, pool, load_lock, operation>>

\* get_result, future.result(timeout): the value of a future that is done;
\* CancelledError for a cancelled one; TimeoutError when the future is not
\* done in time.  Every exception becomes ThreadingError("... failed").
get_result_wait(th) ==
  /\ threads[th].pc = "result"
  /\ LET f == pool.futures[threads[th].future]
     IN threads' = [threads EXCEPT ![th].pc = "finally",
                                   ![th].ret =
          IF f.state = "done" THEN Returned(task(f.x)) ELSE Raised("failed")]
  /\ UNCHANGED <<sessionVars, thread_safe_counter, pool, load_lock, operation>>

\* get_result, finally: self._tasks.pop(task_id, None), whatever is
\* registered under the id by now; the call ends.
get_result_finally(th) ==
  /\ threads[th].pc = "finally"
  /\ pool' = [_tasks |-> [pool._tasks EXCEPT ![threads[th].task_id] = 0],
              futures |-> [pool.futures EXCEPT
                             ![threads[th].future].fetched = TRUE]]
  /\ threads' = [threads EXCEPT ![th] = [PoolResting EXCEPT !.ret = threads[th].ret]]
  /\ UNCHANGED <<sessionVars, thread_safe_counter, load_lock, operation>>

\* ThreadPool.cancel: a registered future that has not begun to run is
\* cancelled and forgotten; the call returns whether it was.
cancel(th, task_id) ==
  /\ threads[th].pc = "idle"
  /\ LET f == pool._tasks[task_id]
     IN IF f # 0 /\ pool.futures[f].state = "pending"
          THEN /\ pool' = [_tasks |-> [pool._tasks EXCEPT ![task_id] = 0],
                           futures |-> [pool.futures EXCEPT
                                          ![f].state = "cancelled",
                                          ![f].fetched = TRUE]]
               /\ threads' = [threads EXCEPT ![th] =
                    [PoolResting EXCEPT !.ret = Returned(1)]]
          ELSE /\ threads' = [threads EXCEPT ![th] =
                    [PoolResting EXCEPT !.ret = Returned(0)]]
               /\ UNCHANGED pool
  /\ UNCHANGED <<sessionVars, thread_safe_counter, load_lock, operation>>

NextPool ==
  \/ \E th \in PoolClients : \E id \in TaskIds : \E x \in TaskArgs :
       submit(th, id, x)
  \/ \E f \in 1..MaxSubmits : WorkerTakes(f)
  \/ \E f \in 1..MaxSubmits : WorkerFinishes(f)
  \/ \E th \in PoolClients : \E id \in TaskIds : get_result_lookup(th, id)
  \/ \E th \in PoolClients : get_result_wait(th)
  \/ \E th \in PoolClients : get_result_finally(th)
  \/ \E th \in PoolClients : \E id \in TaskIds : cancel(th, id)

SpecPool == InitPool /\ [][NextPool]_vars

\* --------------------------------------------------------- AsyncOperation
\* One operation, constructed with a callback, whose start() and cancel()
\* are called from two threads.  threads.workers holds the worker threads
\* start() has created, in order; operation._thread is the index of the
\* one the operation refers to (0: None).  The class has no lock, so every
\* statement of start() is a step of its own.
Controllers == {"K1", "K2"}

\* Worker threads created
MaxRuns == 3

\* threading.Thread.is_alive: from start() until run() has ended
is_alive(w) == w.pc \notin {"created", "dead"}

\* A worker: where it is, whether its callback has been invoked, and
\* whether cancel() was called before its function had returned
NewWorker == [pc |-> "created", called_back |-> FALSE, cancelled_early |-> FALSE]

InitAsync ==
  /\ AppInit
  /\ thread_safe_counter = NewCounter
  /\ pool = NewPool
  /\ load_lock = NewLoadLock
  /\ operation = NewOperation
  /\ threads = [callers |-> [k \in Controllers |-> [pc |-> "idle", raised |-> FALSE]],
                workers |-> <<>>]

\* start(), line 216: raises while the thread the operation refers to is
\* alive
StartCheck(k) ==
  /\ threads.callers[k].pc = "idle"
  /\ Len(threads.workers) < MaxRuns
  /\ threads' = [threads EXCEPT !.callers[k] =
        IF operation._thread # 0 /\ is_alive(threads.workers[operation._thread])
          THEN [pc |-> "idle", raised |-> TRUE]
          ELSE [pc |-> "clear_cancelled", raised |-> FALSE]]
  /\ UNCHANGED <<sessionVars, thread_safe_counter, pool, load_lock, operation>>

\* self._cancelled.clear()
StartClearCancelled(k) ==
  /\ threads.callers[k].pc = "clear_cancelled"
  /\ operation' = [operation EXCEPT !._cancelled = FALSE]
  /\ threads' = [threads EXCEPT !.callers[k].pc = "clear_completed"]
  /\ UNCHANGED <<sessionVars, thread_safe_counter, pool, load_lock>>

\* self._completed.clear()
StartClearCompleted(k) ==
  /\ threads.callers[k].pc = "clear_completed"
  /\ operation' = [operation EXCEPT !._completed = FALSE]
  /\ threads' = [threads EXCEPT !.callers[k].pc = "create"]
  /\ UNCHANGED <<sessionVars, thread_safe_counter, pool, load_lock>>

\* self._thread = threading.Thread(target=worker)
StartCreateThread(k) ==
  /\ threads.callers[k].pc = "create"
  /\ Len(threads.workers) < MaxRuns
  /\ operation' = [operation EXCEPT !._thread = Len(threads.workers) + 1]
  /\ threads' = [callers |-> [threads.callers EXCEPT ![k].pc = "start_thread"],
                 workers |-> Append(threads.workers, NewWorker)]
  /\ UNCHANGED <<sessionVars, thread_safe_counter, pool, load_lock>>

\* self._thread.start(): the thread the operation refers to by now begins
StartThread(k) ==
  /\ threads.callers[k].pc = "start_thread"
  /\ threads' = [callers |-> [threads.callers EXCEPT ![k].pc = "idle"],
                 workers |-> [threads.workers EXCEPT ![operation._thread].pc =
                     IF @ = "created" THEN "begin" ELSE @]]
  /\ UNCHANGED <<sessionVars, thread_safe_counter, pool, load_lock, operation>>

\* cancel(): self._cancelled.set().  Every worker whose function has not
\* returned yet is marked.
Cancel(k) ==
  /\ threads.callers[k].pc = "idle"
  /\ operation' = [operation EXCEPT !._cancelled = TRUE]
  /\ threads' = [threads EXCEPT !.workers =
        [w \in DOMAIN threads.workers |->
           IF threads.workers[w].pc \in {"begin", "func"}
             THEN [threads.workers[w] EXCEPT !.cancelled_early = TRUE]
             ELSE threads.workers[w]]]
  /\ UNCHANGED <<sessionVars, thread_safe_counter, pool, load_lock>>

\* worker, line 224: the function is called unless the operation is
\* cancelled
WorkerBegin(w) ==
  /\ w \in DOMAIN threads.workers
  /\ threads.workers[w].pc = "begin"
  /\ threads' = [threads EXCEPT !.workers[w].pc =
        IF operation._cancelled THEN "finally" ELSE "func"]
  /\ UNCHANGED <<sessionVars, thread_safe_counter, pool, load_lock, operation>>

\* self.func(...) returns, or raises (the except clause logs)
WorkerFunc(w) ==
  /\ w \in DOMAIN threads.workers
  /\ threads.workers[w].pc = "func"
  /\ \E raises \in BOOLEAN :
       threads' = [threads EXCEPT !.workers[w].pc =
         IF raises THEN "finally" ELSE "check"]
  /\ UNCHANGED <<sessionVars, thread_safe_counter, pool, load_lock, operation>>

\* worker, lines 226-227: the callback is invoked unless the operation is
\* cancelled
WorkerCallback(w) ==
  /\ w \in DOMAIN threads.workers
  /\ threads.workers[w].pc = "check"
  /\ threads' = [threads EXCEPT !.workers[w] =
        [pc |-> "finally", called_back |-> ~operation._cancelled,
         cancelled_early |-> @.cancelled_early]]
  /\ UNCHANGED <<sessionVars, thread_safe_counter, pool, load_lock, operation>>

\* finally: self._completed.set()
WorkerFinally(w) ==
  /\ w \in DOMAIN threads.workers
  /\ threads.workers[w].pc = "finally"
  /\ operation' = [operation EXCEPT !._completed = TRUE]
  /\ threads' = [threads EXCEPT !.workers[w].pc = "exit"]
  /\ UNCHANGED <<sessionVars, thread_safe_counter, pool, load_lock>>

\* run() has ended: the thread is no longer alive
WorkerExit(w) ==
  /\ w \in DOMAIN threads.workers
  /\ threads.workers[w].pc = "exit"
  /\ threads' = [threads EXCEPT !.workers[w].pc = "dead"]
  /\ UNCHANGED <<sessionVars, thread_safe_counter, pool, load_lock, operation>>

NextAsync ==
  \/ \E k \in Controllers : StartCheck(k)
  \/ \E k \in Controllers : StartClearCancelled(k)
  \/ \E k \in Controllers : StartClearCompleted(k)
  \/ \E k \in Controllers : StartCreateThread(k)
  \/ \E k \in Controllers : StartThread(k)
  \/ \E k \in Controllers : Cancel(k)
  \/ \E w \in 1..MaxRuns : WorkerBegin(w)
  \/ \E w \in 1..MaxRuns : WorkerFunc(w)
  \/ \E w \in 1..MaxRuns : WorkerCallback(w)
  \/ \E w \in 1..MaxRuns : WorkerFinally(w)
  \/ \E w \in 1..MaxRuns : WorkerExit(w)

\* A worker thread that has a step to take is scheduled in the end, and a
\* function that is running returns or raises.
WorkerStep(w) ==
  \/ WorkerBegin(w) \/ WorkerFunc(w) \/ WorkerCallback(w)
  \/ WorkerFinally(w) \/ WorkerExit(w)

SpecAsync ==
  /\ InitAsync /\ [][NextAsync]_vars
  /\ \A w \in 1..MaxRuns : WF_vars(WorkerStep(w))

\* ------------------------------------------- WebPageHandler.load_page
\* The Playwright handler: one WebPageHandler, several coroutines calling
\* load_page on the event loop.  A coroutine runs from one await to the
\* next without interruption, so each stretch is one step.  load_lock is
\* the asyncio.Lock: _locked, and _waiters in order of arrival; release()
\* wakes the first waiter, which takes the lock when it is resumed.
Loaders == {"L1", "L2", "L3"}

\* load_page calls a coroutine makes
MaxLoads == 2

LoadUrls == {"example.com", "https://example.com"}

\* load_page, lines 62-63: the scheme is put in front when it is missing
WithScheme(url) == IF url = "example.com" THEN "https://example.com" ELSE url

\* The awaits inside the with block
NavigationSection == {"goto", "networkidle", "sleep"}

\* What an await of the page can end in
AwaitOutcomes == {"ok", "TimeoutError", "Exception"}

LoaderResting == [pc |-> "idle", url |-> "", calls |-> 0, waited |-> FALSE,
                  ret |-> "", exit |-> ""]

InitLoad ==
  /\ AppInit
  /\ thread_safe_counter = NewCounter
  /\ pool = NewPool
  /\ load_lock = NewLoadLock
  /\ operation = NewOperation
  /\ threads = [l \in Loaders |-> LoaderResting]

\* load_page entering the with block without the lock
load_page_no_lock(l, url) ==
  /\ threads[l].pc = "idle"
  /\ threads[l].calls < MaxLoads
  /\ threads' = [threads EXCEPT ![l] =
        [pc |-> "goto", url |-> WithScheme(url), calls |-> @.calls + 1,
         waited |-> FALSE, ret |-> "", exit |-> ""]]
  /\ UNCHANGED <<sessionVars, thread_safe_counter, pool, load_lock, operation>>

\* load_page up to its first await: async with self.load_lock takes the
\* lock at once when it is free and nobody waits, and queues otherwise;
\* with the lock, the url is completed and page.goto is awaited.
load_page(l, url) ==
  /\ threads[l].pc = "idle"
  /\ threads[l].calls < MaxLoads
  /\ IF ~load_lock._locked /\ load_lock._waiters = <<>>
       THEN /\ load_lock' = [load_lock EXCEPT !._locked = TRUE]
            /\ threads' = [threads EXCEPT ![l] =
                 [pc |-> "goto", url |-> WithScheme(url),
                  calls |-> @.calls + 1, waited |-> FALSE, ret |-> "",
                  exit |-> ""]]
       ELSE /\ load_lock' = [load_lock EXCEPT !._waiters = Append(@, l)]
            /\ threads' = [threads EXCEPT ![l] =
                 [pc |-> "waiting", url |-> url, calls |-> @.calls + 1,
                  waited |-> TRUE, ret |-> "", exit |-> ""]]
  /\ UNCHANGED <<sessionVars, thread_safe_counter, pool, operation>>

\* asyncio.Lock.release: the lock is free and the first waiter is woken
release(lock) == [_locked |-> FALSE, _waiters |-> lock._waiters]

\* The first waiter is resumed once the lock has been released: it leaves
\* the queue, takes the lock, completes the url and awaits page.goto.
LockAcquired(l) ==
  /\ threads[l].pc = "waiting"
  /\ ~load_lock._locked
  /\ load_lock._waiters # <<>> /\ Head(load_lock._waiters) = l
  /\ load_lock' = [_locked |-> TRUE, _waiters |-> Tail(load_lock._waiters)]
  /\ threads' = [threads EXCEPT ![l].pc = "goto",
                                ![l].url = WithScheme(@)]
  /\ UNCHANGED <<sessionVars, thread_safe_counter, pool, operation>>

\* An await of the with block ends: page.goto, wait_for_load_state or
\* asyncio.sleep.  On success the coroutine goes on to the next await, and
\* after the last one returns True; TimeoutError and any other exception
\* are caught and the coroutine returns False.  Returning leaves the with
\* block, which releases the lock.
AwaitEnds(l) ==
  /\ threads[l].pc \in NavigationSection
  /\ \E outcome \in IF threads[l].pc = "sleep" THEN {"ok"} ELSE AwaitOutcomes :
       IF outcome = "ok" /\ threads[l].pc # "sleep"
         THEN /\ threads' = [threads EXCEPT ![l].pc =
                   IF @ = "goto" THEN "networkidle" ELSE "sleep"]
              /\ UNCHANGED load_lock
         ELSE /\ threads' = [threads EXCEPT ![l].pc = "idle",
                   ![l].ret = IF outcome = "ok" THEN "True" ELSE "False",
                   ![l].exit = outcome]
              /\ load_lock' = release(load_lock)
  /\ UNCHANGED <<sessionVars, thread_safe_counter, pool, operation>>

NextLoad ==
  \/ \E l \in Loaders : \E url \in LoadUrls : load_page(l, url)
  \/ \E l \in Loaders : LockAcquired(l)
  \/ \E l \in Loaders : AwaitEnds(l)

\* The event loop resumes every coroutine that is ready, and every await
\* of the page ends (page.goto and wait_for_load_state have timeouts).
SpecLoad ==
  /\ InitLoad /\ [][NextLoad]_vars
  /\ \A l \in Loaders : WF_vars(LockAcquired(l) \/ AwaitEnds(l))

\* ------------------------------------------------------------ properties
\* The calls to the collaborators that can be in flight
CallPcs == {"snapshot", "decide", "perform"}

\* A call for session t begins in this step
CallBegins(t) == ui' # ui /\ ui'.pc \in CallPcs /\ ui'.tab = t

Last(seq) == seq[Len(seq)]

StartedEntry == [type |-> "execution", message |-> MsgStarted]
StoppedEntry == [type |-> "execution", message |-> MsgStopped]

EmptyInput(t) == Strip(role_entry[t]) = "" \/ Strip(goal_entry[t]) = ""

\* The status text occurs in the message
Mentions(message, text) == \E i \in 1..Len(message) : message[i] = text

\* C1: whenever a get_llm_action call is in flight for a session, that
\* session is executing (Running).
C1_DecideOnlyWhileRunning == ui.pc = "decide" => is_executing[ui.tab]

\* A decide call in flight in the second run of a session (after it was
\* stopped and started again)
C1_Witness ==
  /\ ui.pc = "decide"
  /\ is_executing[ui.tab]
  /\ Len(execution_history[ui.tab]) >= 3

\* C2: the action of a perform_action call in flight is never of type ERROR.
C2_NoErrorActionExecuted == ui.pc = "perform" => ui.action.type # "ERROR"

\* The provider returned an ERROR action, the panel showed it and the
\* iteration ended without a perform_action call
C2_Witness ==
  /\ ui.pc = "idle"
  /\ \E t \in OpenTabs : /\ action_panel[t].action_label = "Error"
                         /\ Last(execution_history[t]) = StoppedEntry

\* C3: start_execution on a session that is not executing, with an empty
\* role or goal, leaves is_executing and the history as they are, begins no
\* call and reports the error "Please specify both role and goal".
C3_EmptyStartRejected ==
  [][\A t \in TabIds :
       (StartExecution(t) /\ ~is_executing[t] /\ EmptyInput(t))
         => /\ ~is_executing'[t]
            /\ execution_history' = execution_history
            /\ ui'.pc = "idle"
            /\ status_bar' = [message |-> MsgNoRoleGoal, level |-> "error"]]_vars

\* A Stopped session (it has run before) whose start was rejected for an
\* empty role or goal
C3_Witness ==
  /\ ui.pc = "idle"
  /\ status_bar.message = MsgNoRoleGoal
  /\ ~is_executing[1] /\ EmptyInput(1)
  /\ execution_history[1] # <<>> /\ Last(execution_history[1]) = StoppedEntry
  /\ tabs = <<1>>

C5_ErrorDecisionRecorded ==
  [][(ui.pc = "set_action" /\ ui.action.type = "ERROR")
       => /\ ~is_executing'[ui.tab]
          /\ \E i \in 1..Len(execution_history'[ui.tab]) :
               /\ i > Len(execution_history[ui.tab])
               /\ execution_history'[ui.tab][i].type = "error"
               /\ execution_history'[ui.tab][i].message = ui.action.message]_vars

\* The reply is a JSON object that lacks type, target or reasoning, or whose
\* type is not one of the defined values
Malformed(response) ==
  /\ "content" \in DOMAIN response
  /\ "json" \in DOMAIN response.content
  /\ \/ ~(required_fields \subseteq DOMAIN response.content.json)
     \/ response.content.json.type \notin valid_types

\* C6 as claimed: a malformed reply reaches the loop as an ERROR action with
\* status invalid_input.
C6_MalformedIsInvalidInput ==
  (ui.pc = "set_action" /\ Malformed(ui.response))
    => /\ ui.action.type = "ERROR"
       /\ ui.action.status = STATUS_CODES.INVALID_INPUT

\* C7 as claimed: get_llm_action is not called with a failed snapshot.
C7_NoDecideOnFailedSnapshot ==
  ui.pc = "decide" => ~IsErrorSnapshot(ui.snapshot)

FailureSeen(u) ==
  \/ "snapshot" \in DOMAIN u /\ IsErrorSnapshot(u.snapshot)
  \/ "result" \in DOMAIN u /\ ~u.result.success
  \/ "action" \in DOMAIN u /\ u.action.type = "ERROR"

\* C9 as claimed: once a failure has occurred in a run, no further
\* collaborator call begins for the session.
C9_NoCallAfterFailure ==
  [][\A t \in TabIds : CallBegins(t) => ~FailureSeen(ui')]_vars

\* The session has been through an iteration and is not executing
StoppedAfterRun(t) ==
  /\ ui.pc = "idle"
  /\ ~is_executing[t]
  /\ action_panel[t].action_label # "No action pending"

\* C10 as claimed: the last history entry of a session stopped by a failure
\* is an error entry (every stop of the loop follows a failure).
C10_StopExplained ==
  \A t \in OpenTabs :
    StoppedAfterRun(t)
      => /\ execution_history[t] # <<>>
         /\ Last(execution_history[t]).type = "error"

\* a is a prefix of b
IsPrefix(a, b) == Len(a) <= Len(b) /\ SubSeq(b, 1, Len(a)) = a

\* C11: in every step the history of every session that is still open
\* afterwards has its earlier value as a prefix (a session created in the
\* step, by New Tab or by loading a file, starts from the empty history).
C11_HistoryAppendOnly ==
  [][\A t \in TabIds :
       t \in OpenTabs'
         => IsPrefix(execution_history[t], execution_history'[t])]_vars

\* A session filled from a saved execution that has then been started and
\* stopped: its history holds the loaded entries followed by the new ones
C11_Witness ==
  /\ ui.pc = "idle"
  /\ 2 \in OpenTabs
  /\ Len(execution_history[2]) = 4
  /\ execution_history[2][3] = StartedEntry
  /\ execution_history[2][4] = StoppedEntry

\* The session has been stopped before
WasStopped(t) ==
  \E i \in 1..Len(execution_history[t]) : execution_history[t][i] = StoppedEntry

\* C12: start_execution on a Stopped session with role and goal given makes
\* it executing, begins an iteration (the get_snapshot call) and keeps the
\* history of the earlier runs as a prefix of the new history.
C12_RestartKeepsHistory ==
  [][\A t \in TabIds :
       (StartExecution(t) /\ ~is_executing[t] /\ WasStopped(t)
          /\ ~EmptyInput(t))
         => /\ is_executing'[t]
            /\ ui' = [pc |-> "snapshot", tab |-> t]
            /\ IsPrefix(execution_history[t], execution_history'[t])
            /\ Last(execution_history'[t]) = StartedEntry]_vars

\* The first call of the second run of session 1 is in flight, with the
\* entries of the first run still in the history
C12_Witness ==
  /\ ui.pc = "snapshot" /\ ui.tab = 1
  /\ Len(execution_history[1]) = 3
  /\ execution_history[1][1] = StartedEntry
  /\ execution_history[1][2] = StoppedEntry
  /\ execution_history[1][3] = StartedEntry

\* C13 as claimed: the role and goal of an executing session do not change,
\* and a get_llm_action call receives the role and goal start_execution
\* validated (the stripped texts of the entries).
C13_RoleGoalFixed ==
  [][\A t \in TabIds :
       /\ (is_executing[t] /\ is_executing'[t])
            => (role_entry'[t] = role_entry[t] /\ goal_entry'[t] = goal_entry[t])
       /\ (ui'.pc = "decide" /\ ui'.tab = t)
            => /\ ui'.role = Strip(role_entry[t])
               /\ ui'.goal = Strip(goal_entry[t])]_vars

C15_AnyRunningGatesQuit ==
  [][/\ has_executing_tabs(tabs, is_executing)
          <=> (\E t \in OpenTabs : is_executing[t])
     /\ OnClose => (ui'.pc = "askyesno" <=> \E t \in OpenTabs : is_executing[t])
     /\ ui'.pc = "destroyed" => \A t \in OpenTabs : ~is_executing'[t]]_vars

\* The application was quit while session 1 was executing: the operator
\* was asked, and cleanup stopped the session
C15_Witness ==
  /\ ui.pc = "destroyed" /\ ui.asked
  /\ 1 \in OpenTabs
  /\ ~is_executing[1]
  /\ Last(execution_history[1]) = StoppedEntry

\* C16: loading the record get_execution_data gives for an open session s
\* into a new tab yields a session with the role, goal and history of s
\* and the same target url (UrlBar.get_url).
C16_ExportImportRoundTrip ==
  [][\A s \in TabIds :
       (s \in OpenTabs /\ OnLoadExecution(get_execution_data(s)))
         => /\ tab_counter' \in OpenTabs' /\ tab_counter' # s
            /\ role_entry'[tab_counter'] = role_entry[s]
            /\ goal_entry'[tab_counter'] = goal_entry[s]
            /\ execution_history'[tab_counter'] = execution_history[s]
            /\ Strip(url_entry'[tab_counter']) = Strip(url_entry[s])]_vars

\* Session 2 was loaded from what session 1 saved after a run and a
\* navigation: both hold the same role, goal and history, and the url entry
\* of session 2 holds the stripped url of session 1
C16_Witness ==
  /\ ui.pc = "idle"
  /\ tabs = <<1, 2>>
  /\ role_entry[1] = " tester" /\ role_entry[2] = " tester"
  /\ goal_entry[2] = goal_entry[1]
  /\ Len(execution_history[1]) = 2
  /\ execution_history[2] = execution_history[1]
  /\ url_entry[1] = " https://example.com"
  /\ url_entry[2] = "https://example.com"

\* The values of the status taxonomy
StatusTaxonomy == {STATUS_CODES[k] : k \in DOMAIN STATUS_CODES}

\* The upstream call raised, or its reply is not JSON, or the JSON is
\* malformed
UpstreamFailed(response) ==
  \/ "exc" \in DOMAIN response
  \/ "json" \notin DOMAIN response.content
  \/ Malformed(response)

\* An argument of the call was empty
InputMissing(u) == FalsyDict(u.snapshot) \/ role_entry[u.tab] = ""
                     \/ goal_entry[u.tab] = ""

\* C17: whatever the inputs and whatever the upstream call does,
\* get_llm_action returns an action; when an input is missing or the
\* upstream call fails the action has type ERROR; and an ERROR action
\* carries a status of the taxonomy and a message.
C17_DecideAlwaysReturnsAction ==
  ui.pc = "set_action"
    => /\ "type" \in DOMAIN ui.action
       /\ ui.action.type \in valid_types \cup {"ERROR"}
       /\ (InputMissing(ui) \/ UpstreamFailed(ui.response))
            => ui.action.type = "ERROR"
       /\ ui.action.type = "ERROR"
            => /\ ui.action.status \in StatusTaxonomy
               /\ "message" \in DOMAIN ui.action

\* The upstream call raised something that is none of the openai errors and
\* the call came back with an ERROR action of status error
C17_Witness ==
  /\ ui.pc = "set_action"
  /\ ui.response = [exc |-> "Exception"]
  /\ ~InputMissing(ui)
  /\ ui.action.type = "ERROR"
  /\ ui.action.status = STATUS_CODES.ERROR

\* C18 as claimed: the page a session perceives is the blank start page or
\* a page that session itself navigated to (no other session can change
\* it).
C18_OwnBrowserTarget ==
  (ui.pc = "decide" /\ "url" \in DOMAIN ui.snapshot)
    => \/ ui.snapshot.url = "data:,"
       \/ \E i \in 1..Len(execution_history[ui.tab]) :
            execution_history[ui.tab][i] =
              [type |-> "navigation",
               message |-> <<"Navigated to ", ui.snapshot.url>>]

\* C19 as claimed: after set_action with an action that is not an ERROR,
\* get_action returns that action.
C19_PanelRoundTrip ==
  [][\A t \in TabIds :
       (ShowAction(t) /\ ui.action.type # "ERROR")
         => get_action(action_panel'[t]) = ui.action]_vars

\* The types the specification defines for an action that can be executed
DefinedTypes == {"CLICK", "INPUT", "SCROLL", "WAIT"}

\* The call had all its inputs and the upstream model replied with JSON
\* that carries a defined type and a target
TypedReply(u) ==
  /\ ~InputMissing(u)
  /\ "content" \in DOMAIN u.response
  /\ "json" \in DOMAIN u.response.content
  /\ {"type", "target"} \subseteq DOMAIN u.response.content.json
  /\ u.response.content.json.type \in DefinedTypes

\* The action returned has the type and target of the reply, and the
\* upstream API was called
EchoesReply(u) ==
  /\ u.action.type = u.response.content.json.type
  /\ u.action.target = u.response.content.json.target
  /\ u.api_called

EntryTypes == {"navigation", "decision", "action", "error"}

\* C28: every entry of every session's history has a type from
\* {navigation, decision, action, error}.
C28_ClosedEntryTypes ==
  \A t \in TabIds : \A i \in 1..Len(execution_history[t]) :
    execution_history[t][i].type \in EntryTypes

C29_GuardedNoOps ==
  [][\A t \in TabIds :
       /\ (StartExecution(t) /\ is_executing[t]) => UNCHANGED vars
       /\ (StopExecution(t) /\ ~is_executing[t]) => UNCHANGED vars]_vars

\* Session 1 is open, executing and at rest after a failed action, with the
\* Started entry in its history: the Start button would be handled now
C29_Witness ==
  /\ ui.pc = "idle"
  /\ 1 \in OpenTabs /\ is_executing[1] /\ Room(1)
  /\ execution_history[1] = <<StartedEntry>>
  /\ status_bar.level = "error"

\* The position the handler is at when the call in flight has returned
AfterCall(pc) ==
  CASE pc = "snapshot" -> "decide"
    [] pc = "decide" -> "set_action"
    [] pc = "perform" -> "performed"

\* C25: while a get_snapshot, get_llm_action or perform_action call is in
\* flight for a session, the only step is the return of that call to the
\* handler that made it: no other call begins for any session, and no start,
\* stop or execute command changes the session meanwhile.
C25_OneCallInFlight ==
  [][ui.pc \in CallPcs
       => /\ ui'.pc = AfterCall(ui.pc)
          /\ ui'.tab = ui.tab
          /\ UNCHANGED <<is_executing, execution_history>>]_vars

\* The get_snapshot call of a second iteration is in flight, begun by
\* execute_action after a manual execute in an executing session
C25_Witness ==
  /\ ui.pc = "snapshot"
  /\ is_executing[ui.tab]
  /\ Len(execution_history[ui.tab]) >= 2
  /\ Last(execution_history[ui.tab]).type = "action"

\* C23: the conversation entries put into the messages of a request are at
\* most 3, and they are the last entries of the handler's
\* conversation_history, in their order there (all of them when there are
\* fewer than 3).
C23_ContextIsLastThree ==
  [][\A t \in TabIds :
       (GetLLMAction(t) /\ ui'.api_called)
         => LET c == ui'.context
                h == conversation_history
            IN /\ Len(c) <= 3
               /\ Len(c) = IF Len(h) < 3 THEN Len(h) ELSE 3
               /\ \A i \in 1..Len(c) : c[i] = h[Len(h) - Len(c) + i]]_vars

\* A request went out while conversation_history held four entries, the
\* first of them different from the first entry sent
C23_Witness ==
  /\ ui.pc = "set_action"
  /\ ui.api_called
  /\ ui.action.type = "ERROR"
  /\ Len(conversation_history) = 4
  /\ Len(ui.context) = 3
  /\ ui.context[1] # conversation_history[1]

\* The Started entries of the history
StartedEntries(t) ==
  {i \in 1..Len(execution_history[t]) : execution_history[t][i] = StartedEntry}

\* C27: the request of the first decide call of a session (started once,
\* never stopped: no earlier iteration of its own) carries no conversation
\* entries.
C27_ContextFromOwnSession ==
  [][\A t \in TabIds :
       (GetLLMAction(t) /\ ui'.api_called
          /\ Cardinality(StartedEntries(t)) = 1 /\ ~WasStopped(t))
         => ui'.context = <<>>]_vars

\* What the call does to a counter value
Applied(op, v) ==
  CASE op = "increment" -> v + 1
    [] op = "decrement" -> Max(0, v - 1)
    [] op = "value" -> v

Unfetched(task_id) ==
  {f \in 1..Len(pool.futures) :
     pool.futures[f].task_id = task_id /\ ~pool.futures[f].fetched}

\* C21: a get_result call for an id under which a task was submitted, and
\* for which no get_result call has come back yet, finds that task; when
\* it then returns a value, it is the value of the function submitted, on
\* the argument submitted; and a call for an id that is not registered
\* raises ThreadingError.
C21_ResultOfSubmittedTask ==
  [][\A th \in PoolClients :
       /\ \A id \in TaskIds :
            get_result_lookup(th, id)
              => /\ Unfetched(id) # {}
                      => /\ threads'[th].pc = "result"
                         /\ threads'[th].future \in Unfetched(id)
                 /\ pool._tasks[id] = 0
                      => threads'[th].ret.raised = "not found"
       /\ (get_result_wait(th) /\ threads'[th].ret.raised = "")
            => threads'[th].ret.value
                 = task(pool.futures[threads[th].future].x)]_vars

\* The workers of the operation that are alive
AliveWorkers ==
  {w \in DOMAIN threads.workers : is_alive(threads.workers[w])}

\* At most one worker of the operation is alive; a start() that finds the
\* operation's worker alive raises and goes no further; and the callback
\* has not been invoked for a worker that cancel() was called for before
\* its function had returned.
OneWorkerAndCancel ==
  /\ Cardinality(AliveWorkers) <= 1
  /\ \A w \in DOMAIN threads.workers :
       threads.workers[w].cancelled_early => ~threads.workers[w].called_back
  /\ \A k \in Controllers :
       threads.callers[k].raised => threads.callers[k].pc = "idle"

\* C30: at most one worker of the operation is alive at any time, start()
\* raises instead of starting a second one, a worker cancelled before its
\* function has returned never invokes the callback, and once a worker has
\* begun, is_completed() becomes true.
C30_OneWorkerCancelCompletion ==
  /\ []OneWorkerAndCancel
  /\ \A w \in 1..MaxRuns :
       (w \in DOMAIN threads.workers /\ threads.workers[w].pc = "begin")
         ~> operation._completed

\* The coroutines inside the navigation section of load_page
Navigating == {l \in Loaders : threads[l].pc \in NavigationSection}

====
